---- MODULE Spec2Model ----
(***************************************************************************)
(* Model of js/main.js of the portfolio site: the RoleRotation typewriter, *)
(* the ScrollAnimations observer, the DataLoader, the decode function of   *)
(* the contact data and the LanguageToggle.                                *)
(*                                                                         *)
(* Every action is one browser task (an event handler, a timer callback,   *)
(* an animation frame callback or the completion of a fetch) together with *)
(* the promise continuations it resumes: microtasks run to completion      *)
(* before the next task starts, so the code after an `await` belongs to    *)
(* the task that resolved the awaited promise.                             *)
(***************************************************************************)
EXTENDS Integers, Sequences, FiniteSets, TLC

\* ------------------------------------------------------------------ bounds
MaxRoles == 2
MaxTitleLen == 2
MaxTags == 2
MaxHandle == 2
MaxStaticReveals == 1
MaxStaticTimeline == 1
MaxProjects == 2
MaxTimelineEntries == 2
MaxPlainLen == 4
MaxGarbageLen == 3
MaxDecodes == 2
MaxLangButtons == 2
MaxSessions == 2
MaxDeepScroll == 2

\* ------------------------------------------------------- CONFIG (main.js)
typeSpeed == 70
deleteSpeed == 35
pauseBetweenRoles == 2500
tagStagger == 100

\* null of state.roleAnimationId; request handles are positive, so 0 is free
null == 0

CONFIG_roles ==
  << [title |-> <<"T","r","a","f","f","i","c"," ","E","n","g","i","n","e","e","r">>,
      tags  |-> <<"Traffic Flow", "Signal Timing", "Safety Analysis", "Simulation">>],
     [title |-> <<"C","o","m","p","u","t","e","r"," ","V","i","s","i","o","n"," ",
                  "S","p","e","c","i","a","l","i","s","t">>,
      tags  |-> <<"OpenCV", "YOLO", "Object Tracking", "Calibration">>],
     [title |-> <<"G","e","o","S","p","a","t","i","a","l"," ","D","a","t","a"," ",
                  "S","c","i","e","n","t","i","s","t">>,
      tags  |-> <<"QGIS", "Spatial Analysis", "Mapping", "GeoPandas">>],
     [title |-> <<"S","o","f","t","w","a","r","e"," ","D","e","v","e","l","o","p","e","r">>,
      tags  |-> <<"Python", "R", "Agentic Coding", "Data Pipelines">>] >>

\* Role tables the typewriter is exercised with besides CONFIG.roles: every
\* table of 1..MaxRoles roles whose titles have 0..MaxTitleLen characters and
\* whose tag lists have 0..MaxTags tags.  Characters and tag names are taken
\* from fixed pools so that the roles of one table differ from each other.
Alphabet == <<"a","b","c","d","e","f","g","h","i","j","k","l","m",
              "n","o","p","q","r","s","t","u","v","w","x","y","z">>

TagPool == <<"t1","t2","t3","t4","t5","t6","t7","t8","t9","t10","t11","t12">>

RoleTitle(r, len) ==
  [j \in 1..len |-> Alphabet[(((r - 1) * (MaxTitleLen + 1) + j - 1) % Len(Alphabet)) + 1]]

RoleTags(r, n) ==
  [j \in 1..n |-> TagPool[(((r - 1) * (MaxTags + 1) + j - 1) % Len(TagPool)) + 1]]

RoleTables ==
  {CONFIG_roles} \cup
  UNION { { [r \in 1..n |-> [title |-> RoleTitle(r, tl[r]), tags |-> RoleTags(r, tg[r])]] :
              tl \in [1..n -> 0..MaxTitleLen], tg \in [1..n -> 0..MaxTags] } :
          n \in 1..MaxRoles }

\* ------------------------------------------------------------------ state
VARIABLES
  reducedMotion,     \* window.matchMedia('(prefers-reduced-motion: reduce)').matches
  heroPresent,       \* DOM.roleText and DOM.tagsContainer exist on the page
  roles,             \* CONFIG.roles
  currentRoleIndex,  \* state.currentRoleIndex (0-based)
  roleAnimationId,   \* state.roleAnimationId
  roleText,          \* DOM.roleText.textContent
  tags,              \* children of DOM.tagsContainer
  role,              \* `role` of the running typeRole / showStaticRole
  i,                 \* `i` of the running typeText
  timers,            \* pending setTimeout callbacks, in registration order
  frames,            \* handles of pending requestAnimationFrame callbacks
  nextHandle,        \* handle the next requestAnimationFrame returns
  pc,                \* the await typeRole is suspended at
  destroyCalled      \* RoleRotation.destroy() has been called

roleVars == <<reducedMotion, heroPresent, roles, currentRoleIndex, roleAnimationId,
              roleText, tags, role, i, timers, frames, nextHandle, pc, destroyCalled>>

VARIABLES
  pagePc,            \* "uninit" until init() has run
  gridPresent,       \* DOM.projectsGrid exists on the page
  timelinePresent,   \* DOM.timelineContainer exists on the page
  lineFillPresent,   \* DOM.timelineLineFill exists on the page
  DOM_reveals,       \* DOM.reveals: the .reveal elements of the page's markup
  DOM_timelineItems, \* DOM.timelineItems: the .timeline__item elements of the markup
  projectsGrid,      \* children of DOM.projectsGrid
  timelineContainer, \* children of DOM.timelineContainer
  visible,           \* the elements carrying the class is-visible
  observer,          \* ScrollAnimations.observer: "null" or "created"
  observed,          \* the targets the IntersectionObserver observes
  timelineFill,      \* DOM.timelineLineFill.style.height
  loadProjects,      \* promise of DataLoader.loadProjects()
  loadTimeline,      \* promise of DataLoader.loadTimeline()
  projectsFailure,   \* how the projects response failed, "none" if it did not
  timelineFailure,   \* how the timeline response failed, "none" if it did not
  data_timeline,     \* `data.timeline` of loadTimeline, the array renderTimeline is given
  lastEntry          \* the entry handleIntersection handled last: what it reported
                     \* of its target and whether the target was visible already

pageVars == <<pagePc, gridPresent, timelinePresent, lineFillPresent, DOM_reveals,
              DOM_timelineItems, projectsGrid, timelineContainer, visible, observer,
              observed, timelineFill, loadProjects, loadTimeline, projectsFailure,
              timelineFailure, data_timeline, lastEntry>>

VARIABLES
  str,               \* the argument of decode(str), a string as its character codes
  decoded,           \* what successive decode calls returned, each given the last result
  langPc,            \* "uninit" until LanguageToggle.init() has run in this session
  session,           \* the page load the document belongs to
  langToggle,        \* DOM.langToggle: the data-lang of each toggle button
  declaredLang,      \* the lang attribute of the page's markup
  markupActive,      \* the buttons the markup gives lang-toggle__btn--active
  preferredLanguage, \* localStorage.getItem('preferredLanguage')
  documentLang,      \* document.documentElement.lang
  activeButtons,     \* the buttons carrying lang-toggle__btn--active
  lastToggle         \* the language and session of the last handleToggle

utilVars == <<str, decoded, langPc, session, langToggle, declaredLang, markupActive,
              preferredLanguage, documentLang, activeButtons, lastToggle>>

VARIABLES
  headerPresent,     \* DOM.header exists on the page
  headerPc,          \* "uninit" until Header.init() has run
  scrollY,           \* window.scrollY
  lastScrollY,       \* state.lastScrollY
  headerVisible,     \* state.headerVisible
  headerHidden,      \* DOM.header carries header--hidden
  headerScrolled,    \* DOM.header carries header--scrolled
  inThrottle,        \* `inThrottle` of the throttled scroll listener
  throttleTimer,     \* the timer that resets inThrottle is pending
  menuTogglePresent, \* DOM.menuToggle exists on the page
  navPresent,        \* DOM.nav exists on the page
  toggleInHeader,    \* DOM.header contains the menu button
  navPc,             \* "uninit" until MobileNav.init() has run
  navOpen,           \* DOM.nav carries is-open
  menuActive,        \* DOM.menuToggle carries is-active
  ariaExpanded,      \* the aria-expanded attribute of DOM.menuToggle
  bodyOverflow,      \* document.body.style.overflow
  navEvents,         \* the last two events the MobileNav listeners handled
  pageLoaderPresent, \* DOM.pageLoader exists on the page
  loaderPc,          \* "uninit" until PageLoader.init() has run
  loadListener,      \* the listener of the window's load event is registered
  loadFired,         \* the window's load event has fired
  loaderTimers,      \* the pending timers of PageLoader
  loaderHidden       \* DOM.pageLoader carries is-hidden

shellVars == <<headerPresent, headerPc, scrollY, lastScrollY, headerVisible, headerHidden,
               headerScrolled, inThrottle, throttleTimer, menuTogglePresent, navPresent,
               toggleInHeader, navPc, navOpen, menuActive, ariaExpanded, bodyOverflow,
               navEvents, pageLoaderPresent, loaderPc, loadListener, loadFired,
               loaderTimers, loaderHidden>>

headerVars == <<headerPc, scrollY, lastScrollY, headerVisible, headerHidden,
                headerScrolled, inThrottle, throttleTimer>>

navVars == <<menuTogglePresent, navPresent, toggleInHeader, navPc, navOpen, menuActive,
             ariaExpanded, bodyOverflow, navEvents>>

loaderVars == <<pageLoaderPresent, loaderPc, loadListener, loadFired, loaderTimers,
                loaderHidden>>

vars == <<roleVars, pageVars, utilVars, shellVars>>

\* function prefersReducedMotion()
prefersReducedMotion == reducedMotion

\* ------------------------------------------------------------ timer queue
\* A timer callback may run once no timer registered before it with an equal
\* or smaller timeout is still pending (the ordering the HTML timer
\* initialisation steps guarantee); nothing else is assumed about time.
CanFire(k) == \A j \in 1..(k - 1) : timers[j].ms > timers[k].ms

RemoveAt(s, k) == SubSeq(s, 1, k - 1) \o SubSeq(s, k + 1, Len(s))

TypeTimer == [cb |-> "type", ms |-> typeSpeed, index |-> 0, tags |-> <<>>]

DeleteTimer == [cb |-> "deleteChar", ms |-> deleteSpeed, index |-> 0, tags |-> <<>>]

WaitTimer == [cb |-> "wait", ms |-> pauseBetweenRoles, index |-> 0, tags |-> <<>>]

\* tags.forEach((tag, index) => setTimeout(..., index * 100))
TagTimers(tgs) ==
  [k \in 1..Len(tgs) |-> [cb |-> "tag", ms |-> (k - 1) * tagStagger, index |-> k - 1, tags |-> tgs]]

\* ----------------------------------------------------------- RoleRotation
\* TagSpan with the highlight class added to every tag
TagSpan_allHighlighted(tag, index) == [text |-> tag, highlight |-> TRUE, faded |-> FALSE]

\* the span a tag timer appends
TagSpan(tag, index) == [text |-> tag, highlight |-> (index = 0), faded |-> FALSE]

\* ShowTagsResolves comparing with tags.length: no tag has that index
ShowTagsResolves_never(index, tgs) == index = Len(tgs)

\* ShowTagsResolves resolving with the first tag instead of the last
ShowTagsResolves_first(index, tgs) == index = 0

\* if (index === tags.length - 1) resolve()
ShowTagsResolves(index, tgs) == index = Len(tgs) - 1

\* NextRoleIndex without the wrap to role 0
NextRoleIndex_noWrap(idx, n) == IF idx + 1 < n THEN idx + 1 ELSE idx

\* state.currentRoleIndex = (state.currentRoleIndex + 1) % CONFIG.roles.length
NextRoleIndex(idx, n) == (idx + 1) % n

\* clearTags(): the existing tags are faded, not removed
ClearTags(tg) == [k \in 1..Len(tg) |-> [tg[k] EXCEPT !.faded = TRUE]]

\* ShowTags without the early resolve for an empty tag list
ShowTags_noEmptyCheck(tm, tgs, awaited) ==
  /\ tags' = <<>>
  /\ timers' = tm \o TagTimers(tgs)
  /\ pc' = IF awaited THEN "tagging" ELSE "static"

\* showTags(tgs), with tm the timers pending when it is called.  `awaited`
\* says that typeRole awaits the promise, so that resolving it starts wait().
ShowTags(tm, tgs, awaited) ==
  /\ tags' = <<>>
  /\ IF Len(tgs) = 0
       THEN IF awaited
              THEN timers' = Append(tm, WaitTimer) /\ pc' = "pausing"
              ELSE timers' = tm /\ pc' = "static"
       ELSE /\ timers' = tm \o TagTimers(tgs)
            /\ pc' = IF awaited THEN "tagging" ELSE "static"

\* type() of typeText(title): cur is the text content and n the value of i
\* when it runs, tg the tag container's content.
TypeStep(tm, title, cur, n, tg, tgs) ==
  IF n < Len(title)
    THEN /\ roleText' = Append(cur, title[n + 1])
         /\ i' = n + 1
         /\ timers' = Append(tm, TypeTimer)
         /\ tags' = tg
         /\ pc' = "typing"
    ELSE /\ roleText' = cur
         /\ i' = n
         /\ ShowTags(tm, tgs, TRUE)

\* typeRole() up to its first suspension
TypeRole(tm) ==
  /\ role' = roles[currentRoleIndex + 1]
  /\ TypeStep(tm, role'.title, <<>>, 0, ClearTags(tags), role'.tags)

\* DeleteStep removing the whole text at once
DeleteStep_wholeText(tm) ==
  IF Len(roleText) > 0
    THEN /\ roleText' = <<>>
         /\ timers' = Append(tm, DeleteTimer)
         /\ pc' = "deleting"
         /\ UNCHANGED <<currentRoleIndex, roleAnimationId, frames, nextHandle>>
    ELSE /\ roleText' = roleText
         /\ timers' = tm
         /\ currentRoleIndex' = NextRoleIndex(currentRoleIndex, Len(roles))
         /\ roleAnimationId' = nextHandle
         /\ frames' = frames \cup {nextHandle}
         /\ nextHandle' = (nextHandle % MaxHandle) + 1
         /\ pc' = "frame"

\* deleteChar() of deleteText(), and what typeRole does once it resolves
DeleteStep(tm) ==
  IF Len(roleText) > 0
    THEN /\ roleText' = SubSeq(roleText, 1, Len(roleText) - 1)
         /\ timers' = Append(tm, DeleteTimer)
         /\ pc' = "deleting"
         /\ UNCHANGED <<currentRoleIndex, roleAnimationId, frames, nextHandle>>
    ELSE /\ roleText' = roleText
         /\ timers' = tm
         /\ currentRoleIndex' = NextRoleIndex(currentRoleIndex, Len(roles))
         /\ roleAnimationId' = nextHandle
         /\ frames' = frames \cup {nextHandle}
         /\ nextHandle' = (nextHandle % MaxHandle) + 1
         /\ pc' = "frame"

\* RoleRotation_init without the reduced-motion branch
RoleRotation_init_alwaysAnimated ==
  /\ pc = "uninit"
  /\ IF ~heroPresent
       THEN /\ pc' = "none"
            /\ UNCHANGED <<roleText, tags, role, i, timers>>
       ELSE TypeRole(timers)
  /\ UNCHANGED <<reducedMotion, heroPresent, roles, currentRoleIndex, roleAnimationId,
                 frames, nextHandle, destroyCalled>>
  /\ UNCHANGED <<pageVars, utilVars, shellVars>>

\* RoleRotation.init()
RoleRotation_init ==
  /\ pc = "uninit"
  /\ IF ~heroPresent
       THEN /\ pc' = "none"
            /\ UNCHANGED <<roleText, tags, role, i, timers>>
       ELSE IF prefersReducedMotion
         THEN \* showStaticRole()
              /\ role' = roles[1]
              /\ roleText' = role'.title
              /\ ShowTags(timers, role'.tags, FALSE)
              /\ i' = i
         ELSE TypeRole(timers)
  /\ UNCHANGED <<reducedMotion, heroPresent, roles, currentRoleIndex, roleAnimationId,
                 frames, nextHandle, destroyCalled>>
  /\ UNCHANGED <<pageVars, utilVars, shellVars>>

\* the timer callback `type` of typeText
TypeTick(k) ==
  /\ timers[k].cb = "type"
  /\ CanFire(k)
  /\ TypeStep(RemoveAt(timers, k), role.title, roleText, i, tags, role.tags)
  /\ UNCHANGED <<reducedMotion, heroPresent, roles, currentRoleIndex, roleAnimationId,
                 role, frames, nextHandle, destroyCalled>>
  /\ UNCHANGED <<pageVars, utilVars, shellVars>>

\* the timer callback of showTags for one tag
TagTick(k) ==
  /\ timers[k].cb = "tag"
  /\ CanFire(k)
  /\ LET t == timers[k]
         tm == RemoveAt(timers, k)
     IN /\ tags' = Append(tags, TagSpan(t.tags[t.index + 1], t.index))
        /\ IF ShowTagsResolves(t.index, t.tags) /\ pc = "tagging"
             THEN timers' = Append(tm, WaitTimer) /\ pc' = "pausing"
             ELSE timers' = tm /\ pc' = pc
  /\ UNCHANGED <<reducedMotion, heroPresent, roles, currentRoleIndex, roleAnimationId,
                 roleText, role, i, frames, nextHandle, destroyCalled>>
  /\ UNCHANGED <<pageVars, utilVars, shellVars>>

\* the timer callback of wait(CONFIG.pauseBetweenRoles); typeRole goes on
\* with deleteText()
WaitTick(k) ==
  /\ timers[k].cb = "wait"
  /\ CanFire(k)
  /\ DeleteStep(RemoveAt(timers, k))
  /\ UNCHANGED <<reducedMotion, heroPresent, roles, tags, role, i, destroyCalled>>
  /\ UNCHANGED <<pageVars, utilVars, shellVars>>

\* the timer callback `deleteChar` of deleteText
DeleteTick(k) ==
  /\ timers[k].cb = "deleteChar"
  /\ CanFire(k)
  /\ DeleteStep(RemoveAt(timers, k))
  /\ UNCHANGED <<reducedMotion, heroPresent, roles, tags, role, i, destroyCalled>>
  /\ UNCHANGED <<pageVars, utilVars, shellVars>>

\* the animation frame callback () => this.typeRole()
AnimationFrame(h) ==
  /\ h \in frames
  /\ frames' = frames \ {h}
  /\ TypeRole(timers)
  /\ UNCHANGED <<reducedMotion, heroPresent, roles, currentRoleIndex, roleAnimationId,
                 nextHandle, destroyCalled>>
  /\ UNCHANGED <<pageVars, utilVars, shellVars>>

\* RoleRotation.destroy()
destroy ==
  /\ pc # "uninit"
  /\ frames' = IF roleAnimationId # null THEN frames \ {roleAnimationId} ELSE frames
  /\ destroyCalled' = TRUE
  /\ UNCHANGED <<reducedMotion, heroPresent, roles, currentRoleIndex, roleAnimationId,
                 roleText, tags, role, i, timers, nextHandle, pc>>
  /\ UNCHANGED <<pageVars, utilVars, shellVars>>

\* ------------------------------------------------------------ page elements
\* Elements are named by how they came into the document and their position.
Reveal(k) == <<"reveal", k>>

StaticItem(k) == <<"static-item", k>>

Card(k) == <<"card", k>>

FallbackCard(k) == <<"fallback-card", k>>

Item(k) == <<"item", k>>

\* el.classList.contains('timeline__item')
IsTimelineItem(el) == el[1] \in {"static-item", "item"}

Els(s) == {s[k].el : k \in 1..Len(s)}

\* the markup's timeline item k, a child of the timeline container
StaticTimelineItem(k) ==
  [el |-> StaticItem(k), period |-> "static", current |-> FALSE, typeLabel |-> "Work"]

\* document.querySelectorAll('.timeline__item')
TimelineItemsIn(container) == Els(container)

\* ------------------------------------------------------- fetched documents
\* Entries a projects document is built from: the entry "A" of the spec's
\* example (no image, no tags), a non-featured entry, a coming-soon entry
\* with links, and a featured entry without the tags and links fields.
ProjectEntries ==
  { [title |-> "A", featured |-> TRUE, image |-> FALSE, tags |-> <<>>,
     status |-> "normal", github |-> FALSE, demo |-> FALSE, wellFormed |-> TRUE],
    [title |-> "B", featured |-> FALSE, image |-> TRUE, tags |-> <<"x">>,
     status |-> "normal", github |-> TRUE, demo |-> FALSE, wellFormed |-> TRUE],
    [title |-> "C", featured |-> TRUE, image |-> TRUE, tags |-> <<"x", "y">>,
     status |-> "coming-soon", github |-> FALSE, demo |-> TRUE, wellFormed |-> TRUE],
    [title |-> "D", featured |-> TRUE, image |-> FALSE, tags |-> <<>>,
     status |-> "normal", github |-> FALSE, demo |-> FALSE, wellFormed |-> FALSE] }

\* Entries a timeline document is built from; the last one stands for an
\* entry that is not an object (null).
TimelineEntries ==
  { [period |-> "2019", type |-> "education", current |-> FALSE, wellFormed |-> TRUE],
    [period |-> "2021", type |-> "work", current |-> FALSE, wellFormed |-> TRUE],
    [period |-> "2023", type |-> "work", current |-> TRUE, wellFormed |-> TRUE],
    [period |-> "null", type |-> "null", current |-> FALSE, wellFormed |-> FALSE] }

\* the lists of at most n distinct entries of S
ListsUpTo(S, n) ==
  UNION { { l \in [1..m -> S] : \A j, k \in 1..m : l[j] = l[k] => j = k } : m \in 0..n }

\* What a fetch can end with: the request is rejected (transport failure), or
\* a response arrives whose status is ok or not and whose body parses as
\* JSON or not; a parsed body has the list property (projects / timeline)
\* or lacks it.  Responses with a failure status carry the shorter lists only.
Responses(lists) ==
  { [rejected |-> TRUE, ok |-> FALSE, parses |-> FALSE, hasList |-> FALSE, list |-> <<>>] }
  \cup { [rejected |-> FALSE, ok |-> o, parses |-> FALSE, hasList |-> FALSE, list |-> <<>>] :
           o \in BOOLEAN }
  \cup { [rejected |-> FALSE, ok |-> o, parses |-> TRUE, hasList |-> FALSE, list |-> <<>>] :
           o \in BOOLEAN }
  \cup { [rejected |-> FALSE, ok |-> TRUE, parses |-> TRUE, hasList |-> TRUE, list |-> l] :
           l \in lists }
  \cup { [rejected |-> FALSE, ok |-> FALSE, parses |-> TRUE, hasList |-> TRUE, list |-> l] :
           l \in {l \in lists : Len(l) <= 1} }

ProjectsResponses == Responses(ListsUpTo(ProjectEntries, MaxProjects))

TimelineResponses == Responses(ListsUpTo(TimelineEntries, MaxTimelineEntries))

\* The failure a response exhibits, as the spec's error taxonomy names it.
FailureKind(resp) ==
  IF resp.rejected THEN "transport"
  ELSE IF ~resp.ok THEN "status"
  ELSE IF ~resp.parses THEN "malformed"
  ELSE IF ~resp.hasList \/ (\E k \in 1..Len(resp.list) : ~resp.list[k].wellFormed)
    THEN "shape"
  ELSE "none"

\* ------------------------------------------------------- ScrollAnimations
\* updateTimelineFill counting its calls instead of the visible items
updateTimelineFill_counting(vis) ==
  IF ~lineFillPresent
    THEN timelineFill' = timelineFill
    ELSE LET items == TimelineItemsIn(timelineContainer)
         IN IF Cardinality(items) = 0
              THEN timelineFill' = timelineFill
              ELSE timelineFill' =
                     [visible |-> IF timelineFill.visible < Cardinality(items)
                                    THEN timelineFill.visible + 1
                                    ELSE Cardinality(items),
                      total |-> Cardinality(items)]

\* updateTimelineFill(), with vis the visible elements when it runs.  The
\* height is kept as the fraction visible/total it is computed from; it
\* stands for (visible / total) * 100 percent.
updateTimelineFill(vis) ==
  IF ~lineFillPresent
    THEN timelineFill' = timelineFill
    ELSE LET items == TimelineItemsIn(timelineContainer)
             visibleItems == items \cap vis
         IN IF Cardinality(items) = 0
              THEN timelineFill' = timelineFill
              ELSE timelineFill' = [visible |-> Cardinality(visibleItems),
                                    total |-> Cardinality(items)]

\* ScrollAnimations.observe(element) for each element of els
ObserveAll(els) == IF observer # "null" THEN observed \cup els ELSE observed

\* ScrollAnimations.init()
ScrollAnimations_init ==
  IF prefersReducedMotion
    THEN \* showAll()
         /\ visible' = visible \cup DOM_reveals \cup DOM_timelineItems
         /\ UNCHANGED <<observer, observed>>
    ELSE /\ observer' = "created"
         /\ observed' = DOM_reveals \cup DOM_timelineItems
         /\ visible' = visible

\* In the document: an element of the markup that was not replaced, or a
\* child of the grid or of the timeline container.
InDocument(el) ==
  \/ el \in DOM_reveals
  \/ el \in Els(projectsGrid)
  \/ el \in Els(timelineContainer)

\* what an entry reports of its target, and whether the target carries
\* is-visible when the entry is handled
EntryKind(el, isIntersecting) ==
  IF isIntersecting
    THEN IF el \in visible THEN "repeated" ELSE "entered"
    ELSE IF el \in visible THEN "left" ELSE "away"

\* handleIntersection removing is-visible from a target that left the viewport
handleIntersection_hides(el, isIntersecting) ==
  /\ pagePc = "ready"
  /\ observer = "created"
  /\ el \in observed
  /\ isIntersecting => InDocument(el)
  /\ IF isIntersecting
       THEN /\ visible' = visible \cup {el}
            /\ IF IsTimelineItem(el)
                 THEN updateTimelineFill(visible')
                 ELSE timelineFill' = timelineFill
       ELSE /\ visible' = visible \ {el}
            /\ timelineFill' = timelineFill
  /\ lastEntry' = EntryKind(el, isIntersecting)
  /\ UNCHANGED <<pagePc, gridPresent, timelinePresent, lineFillPresent, DOM_reveals,
                 DOM_timelineItems, projectsGrid, timelineContainer, observer, observed,
                 loadProjects, loadTimeline, projectsFailure, timelineFailure,
                 data_timeline>>
  /\ UNCHANGED <<roleVars, utilVars, shellVars>>

\* handleIntersection(entries) for one entry.  The environment reports a
\* target as intersecting only while it is in the document.
handleIntersection(el, isIntersecting) ==
  /\ pagePc = "ready"
  /\ observer = "created"
  /\ el \in observed
  /\ isIntersecting => InDocument(el)
  /\ IF isIntersecting
       THEN /\ visible' = visible \cup {el}
            /\ IF IsTimelineItem(el)
                 THEN updateTimelineFill(visible')
                 ELSE timelineFill' = timelineFill
       ELSE UNCHANGED <<visible, timelineFill>>
  /\ lastEntry' = EntryKind(el, isIntersecting)
  /\ UNCHANGED <<pagePc, gridPresent, timelinePresent, lineFillPresent, DOM_reveals,
                 DOM_timelineItems, projectsGrid, timelineContainer, observer, observed,
                 loadProjects, loadTimeline, projectsFailure, timelineFailure,
                 data_timeline>>
  /\ UNCHANGED <<roleVars, utilVars, shellVars>>

\* ------------------------------------------------------------- DataLoader
\* Featured without the filter
Featured_all(projects) == projects

\* data.projects.filter(p => p.featured)
Featured(projects) == SelectSeq(projects, LAMBDA p : p.featured)

\* the markup renderProjects produces: one card per project
ProjectCards(projects) ==
  [k \in 1..Len(projects) |->
     LET project == projects[k]
         isComingSoon == project.status = "coming-soon"
     IN [el |-> Card(k),
         title |-> project.title,
         comingSoon |-> isComingSoon,
         placeholder |-> ~project.image,
         tagBlock |-> Len(project.tags) > 0,
         tags |-> project.tags,
         linksBlock |-> ~isComingSoon /\ (project.github \/ project.demo)]]

\* the markup renderProjectsFallback produces
FallbackCards ==
  << [el |-> FallbackCard(1),
      title |-> "Multi-Camera Trajectory Fusion",
      comingSoon |-> FALSE,
      placeholder |-> TRUE,
      tagBlock |-> TRUE,
      tags |-> <<"Python", "OpenCV", "YOLO", "Tracking">>,
      linksBlock |-> FALSE],
     [el |-> FallbackCard(2),
      title |-> "More Projects Coming Soon",
      comingSoon |-> TRUE,
      placeholder |-> TRUE,
      tagBlock |-> FALSE,
      tags |-> <<>>,
      linksBlock |-> FALSE] >>

\* LoadProjectsThrows without the check of response.ok
LoadProjectsThrows_noStatusCheck(resp) ==
  \/ resp.rejected
  \/ ~resp.parses
  \/ ~resp.hasList
  \/ \E k \in 1..Len(resp.list) : resp.list[k].featured /\ ~resp.list[k].wellFormed

\* the try block of loadProjects throws
LoadProjectsThrows(resp) ==
  \/ resp.rejected     \* await fetch(...) rejects
  \/ ~resp.ok          \* throw new Error('Failed to load projects')
  \/ ~resp.parses      \* await response.json() rejects
  \/ ~resp.hasList     \* data.projects.filter: TypeError
  \/ \E k \in 1..Len(resp.list) :   \* renderProjects: project.tags.length, TypeError
       resp.list[k].featured /\ ~resp.list[k].wellFormed

\* renderProjects(projects)
renderProjects(projects) ==
  /\ projectsGrid' = ProjectCards(projects)
  /\ observed' = ObserveAll(Els(projectsGrid'))

\* renderProjectsFallback()
renderProjectsFallback ==
  /\ projectsGrid' = FallbackCards
  /\ observed' = observed

\* loadProjects() from the completion of its fetch on
ProjectsFetchDone(resp) ==
  /\ loadProjects = "pending"
  /\ IF LoadProjectsThrows(resp)
       THEN renderProjectsFallback
       ELSE renderProjects(Featured(resp.list))
  /\ loadProjects' = "fulfilled"
  /\ projectsFailure' = FailureKind(resp)
  /\ UNCHANGED <<pagePc, gridPresent, timelinePresent, lineFillPresent, DOM_reveals,
                 DOM_timelineItems, timelineContainer, visible, observer, timelineFill,
                 loadTimeline, timelineFailure, data_timeline, lastEntry>>
  /\ UNCHANGED <<roleVars, utilVars, shellVars>>

\* Reverse keeping the order
Reverse_identity(s) == s

\* [...items].reverse()
Reverse(s) == [k \in 1..Len(s) |-> s[Len(s) - k + 1]]

\* the markup renderTimeline produces: one item per entry, newest first
TimelineItems(items) ==
  LET sortedItems == Reverse(items)
  IN [k \in 1..Len(sortedItems) |->
        LET item == sortedItems[k]
        IN [el |-> Item(k),
            period |-> item.period,
            current |-> item.current,
            typeLabel |-> IF item.type = "education" THEN "Education" ELSE "Work"]]

\* LoadTimelineThrows without the check of response.ok
LoadTimelineThrows_noStatusCheck(resp) ==
  \/ resp.rejected
  \/ ~resp.parses
  \/ ~resp.hasList
  \/ \E k \in 1..Len(resp.list) : ~resp.list[k].wellFormed

\* the try block of loadTimeline throws
LoadTimelineThrows(resp) ==
  \/ resp.rejected     \* await fetch(...) rejects
  \/ ~resp.ok          \* throw new Error('Failed to load timeline')
  \/ ~resp.parses      \* await response.json() rejects
  \/ ~resp.hasList     \* [...items]: TypeError
  \/ \E k \in 1..Len(resp.list) : ~resp.list[k].wellFormed   \* item.current: TypeError

\* renderTimeline(items)
renderTimeline(items) ==
  /\ data_timeline' = items
  /\ timelineContainer' = TimelineItems(items)
  /\ observed' = ObserveAll(TimelineItemsIn(timelineContainer'))

\* loadTimeline() from the completion of its fetch on
TimelineFetchDone(resp) ==
  /\ loadTimeline = "pending"
  /\ IF LoadTimelineThrows(resp)
       THEN UNCHANGED <<timelineContainer, observed, data_timeline>>
       ELSE renderTimeline(resp.list)
  /\ loadTimeline' = "fulfilled"
  /\ timelineFailure' = FailureKind(resp)
  /\ UNCHANGED <<pagePc, gridPresent, timelinePresent, lineFillPresent, DOM_reveals,
                 DOM_timelineItems, projectsGrid, visible, observer, timelineFill,
                 loadProjects, projectsFailure, lastEntry>>
  /\ UNCHANGED <<roleVars, utilVars, shellVars>>

\* init(): ScrollAnimations.init(), DataLoader.loadProjects() and
\* DataLoader.loadTimeline() up to their fetches.  RoleRotation.init() runs
\* in the same call; it shares no state with these and is the action
\* RoleRotation_init.
init ==
  /\ pagePc = "uninit"
  /\ pagePc' = "ready"
  /\ ScrollAnimations_init
  /\ loadProjects' = IF gridPresent THEN "pending" ELSE "fulfilled"
  /\ loadTimeline' = IF timelinePresent THEN "pending" ELSE "fulfilled"
  /\ UNCHANGED <<gridPresent, timelinePresent, lineFillPresent, DOM_reveals,
                 DOM_timelineItems, projectsGrid, timelineContainer, timelineFill,
                 projectsFailure, timelineFailure, data_timeline, lastEntry>>
  /\ UNCHANGED <<roleVars, utilVars, shellVars>>

\* ----------------------------------------------------------------- decode
\* A string is the sequence of its character codes.  AsciiLow[k] is the
\* character with code 31 + k and AsciiHigh[k] the one with code 96 + k.
AsciiLow ==
  <<" ", "!", "\"", "#", "$", "%", "&", "'", "(", ")", "*", "+", ",", "-",
    ".", "/", "0", "1", "2", "3", "4", "5", "6", "7", "8", "9", ":", ";",
    "<", "=", ">", "?", "@", "A", "B", "C", "D", "E", "F", "G", "H", "I",
    "J", "K", "L", "M", "N", "O", "P", "Q", "R", "S", "T", "U", "V", "W",
    "X", "Y", "Z", "[", "\\", "]", "^", "_">>

AsciiHigh ==
  <<"a", "b", "c", "d", "e", "f", "g", "h", "i", "j", "k", "l", "m", "n",
    "o", "p", "q", "r", "s", "t", "u", "v", "w", "x", "y", "z", "{", "|",
    "}", "~">>

Ord(c) ==
  IF \E k \in 1..Len(AsciiLow) : AsciiLow[k] = c
    THEN 31 + (CHOOSE k \in 1..Len(AsciiLow) : AsciiLow[k] = c)
    ELSE 96 + (CHOOSE k \in 1..Len(AsciiHigh) : AsciiHigh[k] = c)

Str(t) == [k \in 1..Len(t) |-> Ord(t[k])]

\* const CONTACT
CONTACT ==
  [name |-> Str(<<"U", "2", "V", "i", "Y", "X", "N", "0", "a", "W", "F", "u", "I", "E", "d", "l", "c", "m", "t", "l", "b", "g", "=", "=">>),
   street |-> Str(<<"T", "m", "V", "1", "Z", "X", "I", "g", "V", "2", "V", "n", "I", "D", "I", "5">>),
   city |-> Str(<<"N", "j", "k", "0", "M", "T", "I", "g", "R", "W", "J", "l", "c", "m", "J", "h", "Y", "2", "g", "=">>),
   country |-> Str(<<"R", "G", "V", "1", "d", "H", "N", "j", "a", "G", "x", "h", "b", "m", "Q", "=">>),
   email |-> Str(<<"c", "2", "V", "i", "Y", "X", "N", "0", "a", "W", "F", "u", "L", "W", "d", "l", "c", "m", "t", "l", "b", "k", "B", "o", "b", "3", "R", "t", "Y", "W", "l", "s", "L", "m", "N", "v", "b", "Q", "=", "=">>),
   phone |-> Str(<<"K", "z", "Q", "5", "I", "D", "E", "3", "N", "i", "A", "z", "N", "D", "I", "w", "O", "D", "g", "y", "M", "w", "=", "=">>)]

\* the Base64 alphabet; its k-th character stands for the sextet k - 1
Base64Alphabet ==
  Str(<<"A", "B", "C", "D", "E", "F", "G", "H", "I", "J", "K", "L", "M", "N",
        "O", "P", "Q", "R", "S", "T", "U", "V", "W", "X", "Y", "Z", "a", "b",
        "c", "d", "e", "f", "g", "h", "i", "j", "k", "l", "m", "n", "o", "p",
        "q", "r", "s", "t", "u", "v", "w", "x", "y", "z", "0", "1", "2", "3",
        "4", "5", "6", "7", "8", "9", "+", "/">>)

Sextet(c) == (CHOOSE k \in 1..Len(Base64Alphabet) : Base64Alphabet[k] = c) - 1

IsBase64Char(c) == \E k \in 1..Len(Base64Alphabet) : Base64Alphabet[k] = c

Pad == Ord("=")

\* ASCII whitespace: tab, line feed, form feed, carriage return, space
AsciiWhitespace == {9, 10, 12, 13, 32}

\* atob(data), the forgiving Base64 decoding of the HTML standard: what is left
\* of data once its ASCII whitespace is removed and, if the length is then a
\* multiple of 4, one or two padding characters at its end
Unpadded(data) ==
  LET stripped == SelectSeq(data, LAMBDA c : c \notin AsciiWhitespace)
      n == Len(stripped)
  IN IF n % 4 = 0 /\ n > 0 /\ stripped[n] = Pad
       THEN IF stripped[n - 1] = Pad
              THEN SubSeq(stripped, 1, n - 2)
              ELSE SubSeq(stripped, 1, n - 1)
       ELSE stripped

\* atob(data) throws InvalidCharacterError
atobThrows(data) ==
  LET u == Unpadded(data)
  IN \/ Len(u) % 4 = 1
     \/ \E k \in 1..Len(u) : ~IsBase64Char(u[k])

\* atob(data) where it does not throw: each character is 6 bits, every 8 bits
\* are a byte, and the 2 or 4 bits left at the end are dropped
atob(data) ==
  LET u == Unpadded(data)
  IN [j \in 1..((Len(u) * 6) \div 8) |->
        LET q == ((8 * (j - 1)) \div 6) + 1
            r == (8 * (j - 1)) % 6
        IN ((Sextet(u[q]) * 64 + Sextet(u[q + 1])) \div (2 ^ (4 - r))) % 256]

\* decode whose catch block returns the empty string
decode_emptyOnError(s) == IF atobThrows(s) THEN <<>> ELSE atob(s)

\* function decode(str)
decode(s) == IF atobThrows(s) THEN s ELSE atob(s)

\* The encoding the CONTACT values are written in: Base64 with padding.  Every
\* 6 bits of the text are a character of the alphabet, the last one filled
\* up with zero bits, and the result is padded to a multiple of 4 characters.
encode(x) ==
  LET m == Len(x)
      n == (8 * m + 5) \div 6
  IN [k \in 1..(4 * ((m + 2) \div 3)) |->
        IF k > n
          THEN Pad
          ELSE LET q == ((6 * (k - 1)) \div 8) + 1
                   r == (6 * (k - 1)) % 8
                   v == x[q] * 256 + (IF q + 1 <= m THEN x[q + 1] ELSE 0)
               IN Base64Alphabet[((v \div (2 ^ (10 - r))) % 64) + 1]]

\* the sequences of at most n elements of S
SeqsUpTo(S, n) == UNION { [1..m -> S] : m \in 0..n }

\* texts that get encoded: short texts of printable ASCII
PlainCodes == {Ord("a"), Ord(" "), Ord("~"), Ord("4")}

PlainTexts == SeqsUpTo(PlainCodes, MaxPlainLen)

\* strings that were not produced by the encoding
GarbageCodes == {Ord("Y"), Ord("Q"), Ord("="), Ord(" "), Ord("-")}

Garbage ==
  SeqsUpTo(GarbageCodes, MaxGarbageLen)
  \cup { Str(<<"g", "a", "r", "b", "a", "g", "e">>),
         Str(<<"D", "e", "u", "t", "s", "c", "h", "l", "a", "n", "d">>),
         Str(<<"h", "e", "l", "l", "o", "!">>) }

\* the strings decode is called with
DecodeInputs ==
  {CONTACT[f] : f \in DOMAIN CONTACT} \cup {encode(x) : x \in PlainTexts} \cup Garbage

\* one more call of decode, on str first and then on what the last call returned
Decode ==
  /\ Len(decoded) < MaxDecodes
  /\ decoded' = Append(decoded, decode(IF decoded = <<>> THEN str ELSE decoded[Len(decoded)]))
  /\ UNCHANGED <<str, langPc, session, langToggle, declaredLang, markupActive,
                 preferredLanguage, documentLang, activeButtons, lastToggle>>
  /\ UNCHANGED <<roleVars, pageVars, shellVars>>

\* --------------------------------------------------------- LanguageToggle
\* language codes of buttons, markup and stored preferences
Languages == {"en", "de", "fr"}

\* setLanguage(lang)
setLanguage(lang) ==
  /\ activeButtons' = {b \in 1..Len(langToggle) : langToggle[b] = lang}
  /\ documentLang' = lang

\* LanguageToggle.init() ignoring the stored preference
LanguageToggle_init_noRestore ==
  /\ langPc = "uninit"
  /\ langPc' = "ready"
  /\ UNCHANGED <<activeButtons, documentLang>>
  /\ UNCHANGED <<str, decoded, session, langToggle, declaredLang, markupActive,
                 preferredLanguage, lastToggle>>
  /\ UNCHANGED <<roleVars, pageVars, shellVars>>

\* LanguageToggle.init()
LanguageToggle_init ==
  /\ langPc = "uninit"
  /\ langPc' = "ready"
  /\ LET stored == preferredLanguage
     IN IF stored # "null"
          THEN setLanguage(stored)
          ELSE UNCHANGED <<activeButtons, documentLang>>
  /\ UNCHANGED <<str, decoded, session, langToggle, declaredLang, markupActive,
                 preferredLanguage, lastToggle>>
  /\ UNCHANGED <<roleVars, pageVars, shellVars>>

\* handleToggle(e) for a click on button b; the listeners exist from init() on
handleToggle(b) ==
  /\ langPc = "ready"
  /\ LET lang == langToggle[b]
     IN /\ setLanguage(lang)
        /\ preferredLanguage' = lang
        /\ lastToggle' = [lang |-> lang, session |-> session]
  /\ UNCHANGED <<str, decoded, langPc, session, langToggle, declaredLang, markupActive>>
  /\ UNCHANGED <<roleVars, pageVars, shellVars>>

\* The page is loaded again: a new document from the same markup, the script
\* not yet run; localStorage persists.
Reload ==
  /\ session < MaxSessions
  /\ session' = session + 1
  /\ langPc' = "uninit"
  /\ documentLang' = declaredLang
  /\ activeButtons' = markupActive
  /\ UNCHANGED <<str, decoded, langToggle, declaredLang, markupActive, preferredLanguage,
                 lastToggle>>
  /\ UNCHANGED <<roleVars, pageVars, shellVars>>

\* ----------------------------------------------------------------- Header
\* currentScrollY > 50
scrolledThreshold == 50

\* currentScrollY > 100
hideThreshold == 100

\* the scroll positions the window takes: around the two thresholds and deeper
ScrollPositions ==
  {0, scrolledThreshold, scrolledThreshold + 1, hideThreshold, hideThreshold + 1}
  \cup {hideThreshold + 1 + k : k \in 1..MaxDeepScroll}

\* Header.init()
Header_init ==
  /\ headerPc = "uninit"
  /\ headerPc' = "ready"
  /\ UNCHANGED <<headerPresent, scrollY, lastScrollY, headerVisible, headerHidden,
                 headerScrolled, inThrottle, throttleTimer>>
  /\ UNCHANGED <<navVars, loaderVars>>
  /\ UNCHANGED <<roleVars, pageVars, utilVars>>

\* handleScroll comparing with the threshold only
handleScroll_thresholdOnly ==
  LET currentScrollY == scrollY'
  IN /\ headerScrolled' = (currentScrollY > scrolledThreshold)
     /\ IF currentScrollY > hideThreshold
          THEN IF headerVisible
                 THEN headerHidden' = TRUE /\ headerVisible' = FALSE
                 ELSE UNCHANGED <<headerHidden, headerVisible>>
          ELSE IF ~headerVisible
                 THEN headerHidden' = FALSE /\ headerVisible' = TRUE
                 ELSE UNCHANGED <<headerHidden, headerVisible>>
     /\ lastScrollY' = currentScrollY

\* Header.handleScroll() on a page with a header
handleScroll ==
  LET currentScrollY == scrollY'
  IN /\ headerScrolled' = (currentScrollY > scrolledThreshold)
     /\ IF currentScrollY > lastScrollY /\ currentScrollY > hideThreshold
          THEN IF headerVisible
                 THEN headerHidden' = TRUE /\ headerVisible' = FALSE
                 ELSE UNCHANGED <<headerHidden, headerVisible>>
          ELSE IF ~headerVisible
                 THEN headerHidden' = FALSE /\ headerVisible' = TRUE
                 ELSE UNCHANGED <<headerHidden, headerVisible>>
     /\ lastScrollY' = currentScrollY

\* The window is scrolled to y and its scroll event is dispatched to the
\* throttled listener, if Header.init() has registered it.  Without a header
\* handleScroll throws at DOM.header.classList before it changes anything, and
\* the listener does not get to set inThrottle.
ScrollEvent(y) ==
  /\ scrollY' = y
  /\ IF headerPc = "ready" /\ ~inThrottle /\ headerPresent
       THEN /\ handleScroll
            /\ inThrottle' = TRUE
            /\ throttleTimer' = TRUE
       ELSE UNCHANGED <<lastScrollY, headerVisible, headerHidden, headerScrolled,
                        inThrottle, throttleTimer>>
  /\ UNCHANGED <<headerPresent, headerPc>>
  /\ UNCHANGED <<navVars, loaderVars>>
  /\ UNCHANGED <<roleVars, pageVars, utilVars>>

\* the timer callback () => inThrottle = false
ThrottleTick ==
  /\ throttleTimer
  /\ throttleTimer' = FALSE
  /\ inThrottle' = FALSE
  /\ UNCHANGED <<headerPresent, headerPc, scrollY, lastScrollY, headerVisible,
                 headerHidden, headerScrolled>>
  /\ UNCHANGED <<navVars, loaderVars>>
  /\ UNCHANGED <<roleVars, pageVars, utilVars>>

\* -------------------------------------------------------------- MobileNav
\* the four indicators of the menu
CurrentNav ==
  [open |-> navOpen, active |-> menuActive, expanded |-> ariaExpanded,
   overflow |-> bodyOverflow]

\* setAttribute converts its value to a string
BoolString(b) == IF b THEN "true" ELSE "false"

\* toggle(), from the indicators n
toggle(n) ==
  LET isOpen == ~n.open
  IN [open |-> isOpen,
      active |-> ~n.active,
      expanded |-> BoolString(isOpen),
      overflow |-> IF isOpen THEN "hidden" ELSE ""]

\* close leaving document.body.style.overflow as it is
close_keepsScrollLock(n) ==
  [open |-> FALSE, active |-> FALSE, expanded |-> "false", overflow |-> n.overflow]

\* close(), from the indicators n
close(n) == [open |-> FALSE, active |-> FALSE, expanded |-> "false", overflow |-> ""]

\* The click listener of the document, for a target inside the header or not.
\* On a page without header DOM.header.contains throws once the nav is open,
\* and the listener ends without a change.
documentClick(n, inHeader) ==
  IF n.open /\ headerPresent /\ ~inHeader THEN close(n) ELSE n

\* the indicators become n, ev is the event handled
NavBecomes(n, ev) ==
  /\ navPc = "ready"
  /\ navOpen' = n.open
  /\ menuActive' = n.active
  /\ ariaExpanded' = n.expanded
  /\ bodyOverflow' = n.overflow
  /\ navEvents' = IF Len(navEvents) < 2 THEN Append(navEvents, ev)
                                          ELSE <<navEvents[2], ev>>
  /\ UNCHANGED <<menuTogglePresent, navPresent, toggleInHeader, navPc>>
  /\ UNCHANGED <<headerPresent, headerVars, loaderVars>>
  /\ UNCHANGED <<roleVars, pageVars, utilVars>>

\* MobileNav.init()
MobileNav_init ==
  /\ navPc = "uninit"
  /\ navPc' = IF ~menuTogglePresent \/ ~navPresent THEN "none" ELSE "ready"
  /\ UNCHANGED <<menuTogglePresent, navPresent, toggleInHeader, navOpen, menuActive,
                 ariaExpanded, bodyOverflow, navEvents>>
  /\ UNCHANGED <<headerPresent, headerVars, loaderVars>>
  /\ UNCHANGED <<roleVars, pageVars, utilVars>>

\* a click on the menu button: its listener toggle, then the document's
ToggleClick == NavBecomes(documentClick(toggle(CurrentNav), toggleInHeader), "toggle")

\* a click on a nav link: its listener close, then the document's
NavLinkClick == NavBecomes(documentClick(close(CurrentNav), FALSE), "link")

\* a keydown of Escape
EscapeKey == NavBecomes(close(CurrentNav), "escape")

\* a click outside the header
OutsideClick == NavBecomes(documentClick(CurrentNav, FALSE), "outside")

\* ------------------------------------------------------------- PageLoader
\* PageLoader.init()
PageLoader_init ==
  /\ loaderPc = "uninit"
  /\ IF ~pageLoaderPresent
       THEN /\ loaderPc' = "none"
            /\ UNCHANGED <<loadListener, loaderTimers>>
       ELSE /\ loaderPc' = "ready"
            /\ loadListener' = TRUE
            /\ loaderTimers' = loaderTimers \cup {"fallback"}
  /\ UNCHANGED <<pageLoaderPresent, loadFired, loaderHidden>>
  /\ UNCHANGED <<headerPresent, headerVars, navVars>>
  /\ UNCHANGED <<roleVars, pageVars, utilVars>>

\* The window's load event fires, once, before or after init(); its listener
\* starts the 300 ms timer.
WindowLoad ==
  /\ ~loadFired
  /\ loadFired' = TRUE
  /\ loaderTimers' = IF loadListener THEN loaderTimers \cup {"load"} ELSE loaderTimers
  /\ UNCHANGED <<pageLoaderPresent, loaderPc, loadListener, loaderHidden>>
  /\ UNCHANGED <<headerPresent, headerVars, navVars>>
  /\ UNCHANGED <<roleVars, pageVars, utilVars>>

\* the timer callback of the load listener
LoadTimerTick ==
  /\ "load" \in loaderTimers
  /\ loaderTimers' = loaderTimers \ {"load"}
  /\ loaderHidden' = TRUE
  /\ UNCHANGED <<pageLoaderPresent, loaderPc, loadListener, loadFired>>
  /\ UNCHANGED <<headerPresent, headerVars, navVars>>
  /\ UNCHANGED <<roleVars, pageVars, utilVars>>

\* FallbackTick leaving the loader as it is
FallbackTick_noHide ==
  /\ "fallback" \in loaderTimers
  /\ loaderTimers' = loaderTimers \ {"fallback"}
  /\ loaderHidden' = loaderHidden
  /\ UNCHANGED <<pageLoaderPresent, loaderPc, loadListener, loadFired>>
  /\ UNCHANGED <<headerPresent, headerVars, navVars>>
  /\ UNCHANGED <<roleVars, pageVars, utilVars>>

\* the callback of the fallback timer
FallbackTick ==
  /\ "fallback" \in loaderTimers
  /\ loaderTimers' = loaderTimers \ {"fallback"}
  /\ loaderHidden' = (pageLoaderPresent \/ loaderHidden)
  /\ UNCHANGED <<pageLoaderPresent, loaderPc, loadListener, loadFired>>
  /\ UNCHANGED <<headerPresent, headerVars, navVars>>
  /\ UNCHANGED <<roleVars, pageVars, utilVars>>

\* ------------------------------------------------------------------- Init
\* the typewriter before RoleRotation.init()
RoleIdle ==
  /\ currentRoleIndex = 0
  /\ roleAnimationId = null
  /\ roleText = <<>>
  /\ tags = <<>>
  /\ role = roles[1]
  /\ i = 0
  /\ timers = <<>>
  /\ frames = {}
  /\ nextHandle = 1
  /\ pc = "uninit"
  /\ destroyCalled = FALSE

\* the page before init(), with nReveals .reveal elements and nItems
\* .timeline__item elements in its markup
PageIdle(nReveals, nItems) ==
  /\ pagePc = "uninit"
  /\ DOM_reveals = {Reveal(k) : k \in 1..nReveals}
  /\ DOM_timelineItems = {StaticItem(k) : k \in 1..nItems}
  /\ projectsGrid = <<>>
  /\ timelineContainer = [k \in 1..nItems |-> StaticTimelineItem(k)]
  /\ visible = {}
  /\ observer = "null"
  /\ observed = {}
  /\ timelineFill = [visible |-> 0, total |-> 1]
  /\ loadProjects = "idle"
  /\ loadTimeline = "idle"
  /\ projectsFailure = "none"
  /\ timelineFailure = "none"
  /\ data_timeline = <<>>
  /\ lastEntry = "none"

\* decode not called
DecodeIdle ==
  /\ str = <<>>
  /\ decoded = <<>>

\* LanguageToggle.init() not run, on a page without toggle buttons
LangIdle ==
  /\ langPc = "uninit"
  /\ session = 1
  /\ langToggle = <<>>
  /\ declaredLang = "en"
  /\ markupActive = {}
  /\ preferredLanguage = "null"
  /\ documentLang = "en"
  /\ activeButtons = {}
  /\ lastToggle = [lang |-> "none", session |-> 0]

UtilIdle == DecodeIdle /\ LangIdle

\* Header.init() not run, the window at the top
HeaderIdle ==
  /\ headerPc = "uninit"
  /\ scrollY = 0
  /\ lastScrollY = 0
  /\ headerVisible = TRUE
  /\ headerHidden = FALSE
  /\ headerScrolled = FALSE
  /\ inThrottle = FALSE
  /\ throttleTimer = FALSE

\* MobileNav.init() not run, the menu closed
NavIdle ==
  /\ navPc = "uninit"
  /\ navOpen = FALSE
  /\ menuActive = FALSE
  /\ ariaExpanded = "false"
  /\ bodyOverflow = ""
  /\ navEvents = <<>>

\* PageLoader.init() not run, the loader showing
LoaderIdle ==
  /\ loaderPc = "uninit"
  /\ loadListener = FALSE
  /\ loadFired = FALSE
  /\ loaderTimers = {}
  /\ loaderHidden = FALSE

\* a page without header, menu and page loader
ShellIdle ==
  /\ headerPresent = FALSE
  /\ HeaderIdle
  /\ menuTogglePresent = FALSE
  /\ navPresent = FALSE
  /\ toggleInHeader = FALSE
  /\ NavIdle
  /\ pageLoaderPresent = FALSE
  /\ LoaderIdle

\* a page without hero, grid and timeline, init() not run
RolePageIdle ==
  /\ reducedMotion = FALSE
  /\ heroPresent = FALSE
  /\ roles = CONFIG_roles
  /\ RoleIdle
  /\ gridPresent = FALSE
  /\ timelinePresent = FALSE
  /\ lineFillPresent = FALSE
  /\ PageIdle(0, 0)

InitRole ==
  /\ ShellIdle
  /\ reducedMotion \in BOOLEAN
  /\ heroPresent \in BOOLEAN
  /\ roles \in RoleTables
  /\ RoleIdle
  /\ gridPresent = FALSE
  /\ timelinePresent = FALSE
  /\ lineFillPresent = FALSE
  /\ PageIdle(0, 0)
  /\ UtilIdle

NextRole ==
  \/ RoleRotation_init
  \/ \E k \in 1..Len(timers) : TypeTick(k)
  \/ \E k \in 1..Len(timers) : TagTick(k)
  \/ \E k \in 1..Len(timers) : WaitTick(k)
  \/ \E k \in 1..Len(timers) : DeleteTick(k)
  \/ \E h \in frames : AnimationFrame(h)
  \/ destroy

SpecRole == InitRole /\ [][NextRole]_vars

\* The environment runs every timer callback that is due and every animation
\* frame callback that is requested; destroy() is a caller's choice.
FairRole ==
  /\ WF_vars(\E k \in 1..Len(timers) : TypeTick(k))
  /\ WF_vars(\E k \in 1..Len(timers) : TagTick(k))
  /\ WF_vars(\E k \in 1..Len(timers) : WaitTick(k))
  /\ WF_vars(\E k \in 1..Len(timers) : DeleteTick(k))
  /\ WF_vars(\E h \in frames : AnimationFrame(h))
  /\ WF_vars(RoleRotation_init)

LiveSpecRole == InitRole /\ [][NextRole]_vars /\ FairRole

InitPage ==
  /\ ShellIdle
  /\ reducedMotion \in BOOLEAN
  /\ heroPresent = FALSE
  /\ roles = CONFIG_roles
  /\ RoleIdle
  /\ gridPresent \in BOOLEAN
  /\ timelinePresent \in BOOLEAN
  /\ lineFillPresent \in (IF timelinePresent THEN BOOLEAN ELSE {FALSE})
  /\ \E nReveals \in 0..MaxStaticReveals :
       \E nItems \in (IF timelinePresent THEN 0..MaxStaticTimeline ELSE {0}) :
         PageIdle(nReveals, nItems)
  /\ UtilIdle

NextPage ==
  \/ init
  \/ \E el \in observed : \E isIntersecting \in BOOLEAN :
       handleIntersection(el, isIntersecting)
  \/ \E resp \in ProjectsResponses : ProjectsFetchDone(resp)
  \/ \E resp \in TimelineResponses : TimelineFetchDone(resp)

SpecPage == InitPage /\ [][NextPage]_vars

InitDecode ==
  /\ ShellIdle
  /\ RolePageIdle
  /\ LangIdle
  /\ str \in DecodeInputs
  /\ decoded = <<>>

NextDecode == Decode

SpecDecode == InitDecode /\ [][NextDecode]_vars

InitLang ==
  /\ ShellIdle
  /\ RolePageIdle
  /\ DecodeIdle
  /\ langPc = "uninit"
  /\ session = 1
  /\ langToggle \in SeqsUpTo(Languages, MaxLangButtons)
  /\ declaredLang \in Languages
  /\ markupActive \in SUBSET (1..Len(langToggle))
  /\ preferredLanguage \in Languages \cup {"null"}
  /\ documentLang = declaredLang
  /\ activeButtons = markupActive
  /\ lastToggle = [lang |-> "none", session |-> 0]

NextLang ==
  \/ LanguageToggle_init
  \/ \E b \in 1..Len(langToggle) : handleToggle(b)
  \/ Reload

SpecLang == InitLang /\ [][NextLang]_vars

InitHeader ==
  /\ RolePageIdle
  /\ UtilIdle
  /\ headerPresent \in BOOLEAN
  /\ HeaderIdle
  /\ menuTogglePresent = FALSE
  /\ navPresent = FALSE
  /\ toggleInHeader = FALSE
  /\ NavIdle
  /\ pageLoaderPresent = FALSE
  /\ LoaderIdle

NextHeader ==
  \/ Header_init
  \/ \E y \in ScrollPositions : ScrollEvent(y)
  \/ ThrottleTick

SpecHeader == InitHeader /\ [][NextHeader]_vars

InitShell ==
  /\ RolePageIdle
  /\ UtilIdle
  /\ headerPresent \in BOOLEAN
  /\ HeaderIdle
  /\ menuTogglePresent \in BOOLEAN
  /\ navPresent \in BOOLEAN
  /\ toggleInHeader \in (IF headerPresent /\ menuTogglePresent THEN BOOLEAN ELSE {FALSE})
  /\ NavIdle
  /\ pageLoaderPresent \in BOOLEAN
  /\ LoaderIdle

NextShell ==
  \/ MobileNav_init
  \/ ToggleClick
  \/ NavLinkClick
  \/ EscapeKey
  \/ OutsideClick
  \/ PageLoader_init
  \/ WindowLoad
  \/ LoadTimerTick
  \/ FallbackTick

SpecShell == InitShell /\ [][NextShell]_vars

\* The environment runs every timer callback that is due; whether the load
\* event fires and what the user clicks is not its promise.
FairShell == WF_vars(LoadTimerTick) /\ WF_vars(FallbackTick)

LiveSpecShell == InitShell /\ [][NextShell]_vars /\ FairShell

\* ===================================================== claims: RoleRotation
\* the tag elements showTags(r.tags) is to leave in the tag container
ExpectedTags(r) ==
  [k \in 1..Len(r.tags) |-> [text |-> r.tags[k], highlight |-> (k = 1), faded |-> FALSE]]

HasTimer(tm, cb) == \E k \in 1..Len(tm) : tm[k].cb = cb

AnimationPhases == {"typing", "tagging", "pausing", "deleting", "frame"}

\* C1: once destroy() has been called during the typewriter cycle, no
\* sequencer timer and no animation frame callback is pending any more.
C1_DestroyCancelsLoop ==
  (destroyCalled /\ pc \in AnimationPhases) => (timers = <<>> /\ frames = {})

\* C2: with reduced motion disabled the typewriter's phases follow each other
\* in the order typing, tagging, pausing, deleting, typing: a tag is appended
\* only while the full title is shown, the pause starts only with all tags of
\* the role in place, the pause ends only by its timer, and the animation
\* frame is requested and answered only with the role text empty.
C2_PhasesSerialize ==
  [][ ~reducedMotion =>
        /\ <<pc, pc'>> \in
             { <<"uninit", "none">>, <<"uninit", "typing">>, <<"uninit", "tagging">>,
               <<"uninit", "pausing">>,
               <<"typing", "typing">>, <<"typing", "tagging">>, <<"typing", "pausing">>,
               <<"tagging", "tagging">>, <<"tagging", "pausing">>,
               <<"pausing", "pausing">>, <<"pausing", "deleting">>, <<"pausing", "frame">>,
               <<"deleting", "deleting">>, <<"deleting", "frame">>,
               <<"frame", "frame">>, <<"frame", "typing">>, <<"frame", "tagging">>,
               <<"frame", "pausing">>, <<"none", "none">> }
        /\ (tags' # tags /\ pc = "tagging") =>
             /\ roleText = role.title
             /\ roleText' = roleText
             /\ tags' = Append(tags, tags'[Len(tags')])
        /\ (Len(tags') > Len(tags)) => pc = "tagging"
        /\ (pc # "tagging" /\ pc' = "tagging") => roleText' = role'.title /\ tags' = <<>>
        /\ (pc # "pausing" /\ pc' = "pausing") =>
             roleText' = role'.title /\ tags' = ExpectedTags(role')
        /\ (pc = "pausing" /\ roleText' # roleText) =>
             HasTimer(timers, "wait") /\ ~HasTimer(timers', "wait")
        /\ (pc = "pausing" /\ pc' # "pausing") =>
             HasTimer(timers, "wait") /\ ~HasTimer(timers', "wait")
        /\ (Len(roleText') < Len(roleText)) => pc \in {"pausing", "deleting"}
        /\ (pc # "frame" /\ pc' = "frame") => roleText' = <<>>
        /\ (pc = "frame" /\ pc' # "frame") => roleText = <<>>
        /\ (Len(roleText') > Len(roleText)) => pc \in {"uninit", "frame", "typing"}
     ]_vars

C2_SecondRoleTagged ==
  /\ ~reducedMotion
  /\ pc = "deleting"
  /\ currentRoleIndex = 1
  /\ Len(role.title) = 2
  /\ Len(role.tags) = 2
  /\ roleText = <<role.title[1]>>

\* C8: under reduced motion typeRole never runs: the typewriter stays out of
\* every animation phase, currentRoleIndex stays 0, roleAnimationId stays
\* null, no typewriter callback is ever pending, and from init on the role
\* text is the title of role 0.
C8_ReducedMotionStatic ==
  reducedMotion =>
    /\ pc \in {"uninit", "static", "none"}
    /\ currentRoleIndex = 0
    /\ roleAnimationId = null
    /\ frames = {}
    /\ i = 0
    /\ \A k \in 1..Len(timers) : timers[k].cb = "tag"
    /\ (pc = "static" => roleText = roles[1].title)

C8_StaticRoleShown ==
  /\ reducedMotion
  /\ pc = "static"
  /\ timers = <<>>
  /\ destroyCalled
  /\ Len(roleText) = 2
  /\ Len(tags) = 2

\* C9: when the rendering of a role's tags has ended (the pause and delete
\* phases of the animation, or the static role with no tag timer left), the
\* tag container holds exactly the role's tags, in order, the first one and
\* only the first one highlighted.
C9_TagsRendered ==
  (pc \in {"pausing", "deleting"} \/ (pc = "static" /\ timers = <<>>)) =>
    /\ tags = ExpectedTags(roles[currentRoleIndex + 1])
    /\ Len(tags) = Len(roles[currentRoleIndex + 1].tags)
    /\ \A k \in 1..Len(tags) : tags[k].highlight <=> (k = 1)

C9_TwoTagsRendered ==
  /\ pc = "pausing"
  /\ currentRoleIndex = 1
  /\ Len(tags) = 2
  /\ tags[1].highlight
  /\ ~tags[2].highlight

\* C10: currentRoleIndex is always in 0..roleCount-1 and 0 before init; it
\* changes only in the step that finds the role text fully erased, and then
\* to (currentRoleIndex + 1) mod roleCount; the role table never changes.
C10_RoleIndexCycles ==
  /\ [](currentRoleIndex \in 0..(Len(roles) - 1))
  /\ [](pc = "uninit" => currentRoleIndex = 0)
  /\ [][ /\ roles' = roles
         /\ (currentRoleIndex' # currentRoleIndex) =>
              /\ pc \in {"pausing", "deleting"}
              /\ roleText = <<>>
              /\ roleText' = <<>>
              /\ currentRoleIndex' = (currentRoleIndex + 1) % Len(roles)
         /\ (pc \in {"pausing", "deleting"} /\ pc' = "frame" /\ Len(roles) > 1) =>
              currentRoleIndex' # currentRoleIndex
       ]_vars

C10_WrappedToRoleZero ==
  /\ Len(roles) = 2
  /\ currentRoleIndex = 0
  /\ roleAnimationId = 2
  /\ pc = "typing"

\* the most roles a role table has
RoleCountMax == IF MaxRoles > Len(CONFIG_roles) THEN MaxRoles ELSE Len(CONFIG_roles)

\* the animated typewriter runs and destroy() has not been called
Animating == ~reducedMotion /\ heroPresent /\ ~destroyCalled

\* C11: with reduced motion disabled and destroy() never called, the cycle
\* never ends under fair firing of timers and animation frames: every phase
\* the typewriter is in is left again, and every role's title is shown fully
\* typed again and again.
C11_CycleNeverEnds ==
  /\ \A p \in AnimationPhases : (pc = p /\ Animating) ~> (pc # p \/ destroyCalled)
  /\ \A r \in 1..RoleCountMax :
       []<>( \/ ~Animating
             \/ r > Len(roles)
             \/ /\ currentRoleIndex = r - 1
                /\ roleText = roles[r].title
                /\ pc \in {"tagging", "pausing"} )

C11_SecondLapTyped ==
  /\ Animating
  /\ Len(roles) = 2
  /\ currentRoleIndex = 0
  /\ roleAnimationId = 2
  /\ pc = "pausing"
  /\ Len(roleText) = 2

\* C20: a role without tags has no tagging phase: when its title is typed
\* the typewriter is in the pause with only the pause timer pending and the
\* tag container empty; the static role without tags leaves no timer at all.
C20_ZeroTagsSkipTagging ==
  /\ [](( pc \in AnimationPhases /\ Len(role.tags) = 0) =>
          /\ pc # "tagging"
          /\ ~HasTimer(timers, "tag")
          /\ (pc \in {"pausing", "deleting", "frame"} => tags = <<>>))
  /\ []((pc = "static" /\ Len(roles[1].tags) = 0) => (timers = <<>> /\ tags = <<>>))
  /\ [][ ( /\ ~reducedMotion
           /\ Len(role'.tags) = 0
           /\ pc' \in AnimationPhases
           /\ pc \in {"uninit", "frame", "typing"}
           /\ pc' \notin {"typing", pc} ) =>
         ( /\ pc' = "pausing"
           /\ roleText' = role'.title
           /\ tags' = <<>>
           /\ timers' = <<WaitTimer>> ) ]_vars

C20_PausingWithoutTags ==
  /\ pc = "pausing"
  /\ currentRoleIndex = 1
  /\ Len(role.tags) = 0
  /\ Len(role.title) = 2
  /\ tags = <<>>
  /\ timers = <<WaitTimer>>

IsPrefix(s, t) == Len(s) <= Len(t) /\ s = SubSeq(t, 1, Len(s))

\* C22: throughout the animation the role text is a prefix of the title of
\* roles[currentRoleIndex]; a typing tick appends exactly the next character
\* of the title while one is left, a deleting tick removes exactly the last
\* character while one is left, and no step changes the length of the text
\* by more than one.
C22_TextIsTitlePrefix ==
  /\ [](pc \in AnimationPhases => IsPrefix(roleText, roles[currentRoleIndex + 1].title))
  /\ [][ \A k \in 1..Len(timers) :
           /\ (TypeTick(k) /\ Len(roleText) < Len(role.title)) =>
                roleText' = Append(roleText, role.title[Len(roleText) + 1])
           /\ (TypeTick(k) /\ Len(roleText) = Len(role.title)) => roleText' = roleText
           /\ (DeleteTick(k) /\ Len(roleText) > 0) =>
                roleText' = SubSeq(roleText, 1, Len(roleText) - 1)
           /\ (DeleteTick(k) /\ Len(roleText) = 0) => roleText' = roleText ]_vars
  /\ [][ pc' \in AnimationPhases =>
           Len(roleText') - Len(roleText) \in {0 - 1, 0, 1} ]_vars

C22_SecondRoleHalfTyped ==
  /\ pc = "typing"
  /\ currentRoleIndex = 1
  /\ roleAnimationId # null
  /\ Len(role.title) = 2
  /\ roleText = <<role.title[1]>>
  /\ i = 1

\* ============================== claims: ScrollAnimations and DataLoader
\* the elements renderProjects, renderProjectsFallback and renderTimeline put
\* into the document
RenderedElements ==
  Els(projectsGrid) \cup {el \in Els(timelineContainer) : el[1] = "item"}

\* the .reveal and .timeline__item elements of the document
RevealElements == DOM_reveals \cup Els(projectsGrid) \cup Els(timelineContainer)

\* C3: once the scroll observer exists, every element rendered by
\* renderProjects, renderProjectsFallback or renderTimeline is one of its
\* targets.
C3_RenderedElementsObserved ==
  observer = "created" => RenderedElements \subseteq observed

\* C4: under reduced motion, once both loads have settled, every reveal
\* element and timeline item of the document is marked visible and the
\* timeline fill is the 100% the animated path ends with.
C4_ReducedMotionSameEndState ==
  (reducedMotion /\ pagePc = "ready" /\ loadProjects = "fulfilled"
     /\ loadTimeline = "fulfilled") =>
    /\ RevealElements \subseteq visible
    /\ (lineFillPresent /\ timelineContainer # <<>>) =>
         timelineFill.visible = timelineFill.total

\* C5: the timeline fill never decreases from one state to the next.
C5_FillNonDecreasing ==
  [][ timelineFill.visible * timelineFill'.total
        <= timelineFill'.visible * timelineFill.total ]_vars

\* C6: when the projects response fails in any way (transport, status,
\* malformed or wrongly shaped body), loadProjects settles without throwing
\* and the grid holds the fallback fragment: the two cards 'Multi-Camera
\* Trajectory Fusion' and 'More Projects Coming Soon'.
C6_ProjectsFallback ==
  (gridPresent /\ projectsFailure # "none") =>
    /\ loadProjects = "fulfilled"
    /\ Len(projectsGrid) = 2
    /\ projectsGrid[1].title = "Multi-Camera Trajectory Fusion"
    /\ projectsGrid[2].title = "More Projects Coming Soon"
    /\ projectsGrid = FallbackCards

C6_StatusFailureFellBack ==
  /\ projectsFailure = "status"
  /\ loadProjects = "fulfilled"
  /\ Len(projectsGrid) = 2
  /\ observer = "created"

\* C7: the step in which a failed timeline response arrives leaves the
\* timeline container, the observer's targets and everything else on the page
\* as they were, and loadTimeline settles without throwing.
C7_TimelineFailureNoEffect ==
  [][ (loadTimeline = "pending" /\ loadTimeline' # "pending" /\ timelineFailure' # "none") =>
        /\ timelineContainer' = timelineContainer
        /\ observed' = observed
        /\ projectsGrid' = projectsGrid
        /\ visible' = visible
        /\ timelineFill' = timelineFill
        /\ loadTimeline' = "fulfilled"
    ]_vars

C7_TimelineLeftAlone ==
  /\ timelineFailure = "status"
  /\ loadTimeline = "fulfilled"
  /\ observer = "created"
  /\ Len(timelineContainer) = 1
  /\ timelineContainer[1].el = StaticItem(1)
  /\ observed = {StaticItem(1)}

\* C12: an element marked visible is marked visible in every later state,
\* whatever the intersection entries report of it.
C12_VisibleNeverReverts ==
  [][visible \subseteq visible']_vars

C12_LeftStaysVisible ==
  /\ lastEntry = "left"
  /\ Cardinality(visible) = 2
  /\ visible = observed

\* C13: every step that marks a timeline item of the document visible, the
\* observer's handler included, leaves the timeline fill at (visible timeline
\* items) / (timeline items) of the document, between 0 and 100 percent.
C13_FillFollowsVisibility ==
  [][ LET items == TimelineItemsIn(timelineContainer')
      IN (lineFillPresent /\ \E el \in items : el \in visible' \ visible) =>
           /\ timelineFill' = [visible |-> Cardinality(items \cap visible'),
                               total |-> Cardinality(items)]
           /\ timelineFill'.visible <= timelineFill'.total
    ]_vars

\* C14: the handler, given an intersecting entry for a target that is already
\* visible, leaves the set of visible elements and the timeline fill as they
\* are: no step that changes either of them is such a call.
C14_HandlerIdempotent ==
  [][ (visible' # visible \/ timelineFill' # timelineFill) =>
        \A el \in visible \cap observed : ~handleIntersection(el, TRUE) ]_vars

C14_RepeatedOnTimelineItem ==
  /\ lastEntry = "repeated"
  /\ observed = Els(timelineContainer)
  /\ Cardinality(visible) = 1
  /\ timelineFill = [visible |-> 1, total |-> 2]

\* the position in list of its j-th entry with the featured flag
FeaturedAt(list, j) ==
  CHOOSE k \in 1..Len(list) :
    /\ list[k].featured
    /\ Cardinality({m \in 1..k : list[m].featured}) = j

\* C15: a successful projects load leaves in the grid exactly one card per
\* featured entry of the document, in the document's order, and none for an
\* entry that is not featured; the card of an entry without image has the
\* placeholder block and the card of an entry without tags has no tag block.
C15_FeaturedCardsOnly ==
  [][ (loadProjects = "pending" /\ loadProjects' = "fulfilled"
         /\ projectsFailure' = "none") =>
      \A resp \in ProjectsResponses :
        ProjectsFetchDone(resp) =>
          LET list == resp.list
              n == Cardinality({k \in 1..Len(list) : list[k].featured})
          IN /\ Len(projectsGrid') = n
             /\ \A j \in 1..n :
                  LET entry == list[FeaturedAt(list, j)]
                      card == projectsGrid'[j]
                  IN /\ card.title = entry.title
                     /\ card.placeholder = ~entry.image
                     /\ card.tagBlock = (entry.tags # <<>>)
                     /\ card.tags = entry.tags
             /\ \A k \in 1..Len(list) :
                  ~list[k].featured =>
                    \A j \in 1..Len(projectsGrid') : projectsGrid'[j].title # list[k].title
    ]_vars

C15_PlaceholderCardThenTagged ==
  /\ loadProjects = "fulfilled"
  /\ projectsFailure = "none"
  /\ Len(projectsGrid) = 2
  /\ projectsGrid[1].title = "A"
  /\ projectsGrid[1].placeholder
  /\ ~projectsGrid[1].tagBlock
  /\ projectsGrid[2].title = "C"
  /\ ~projectsGrid[2].placeholder
  /\ projectsGrid[2].tagBlock

\* C16: renderTimeline leaves in the container exactly one item per entry of
\* its input, the last entry first and the first entry last, and the input
\* array is afterwards what it was.
C16_TimelineReversed ==
  [][ (loadTimeline = "pending" /\ loadTimeline' = "fulfilled"
         /\ timelineFailure' = "none") =>
      \A resp \in TimelineResponses :
        TimelineFetchDone(resp) =>
          LET items == resp.list
              n == Len(items)
          IN /\ Len(timelineContainer') = n
             /\ \A k \in 1..n :
                  /\ timelineContainer'[k].period = items[n + 1 - k].period
                  /\ timelineContainer'[k].current = items[n + 1 - k].current
                  /\ timelineContainer'[k].typeLabel =
                       (IF items[n + 1 - k].type = "education" THEN "Education" ELSE "Work")
             /\ data_timeline' = items
    ]_vars

C16_NewestFirst ==
  /\ loadTimeline = "fulfilled"
  /\ Len(data_timeline) = 2
  /\ data_timeline[1].period = "2019"
  /\ data_timeline[2].period = "2023"
  /\ Len(timelineContainer) = 2
  /\ timelineContainer[1].period = "2023"
  /\ timelineContainer[2].period = "2019"

\* ============================================================ claims: decode
\* s is what the encoding produces for some text: a multiple of 4 characters
\* of the alphabet, the last one or two of them possibly padding, with the
\* bits that carry no text zero
ValidEncoding(s) ==
  LET n == Len(s)
      p == IF n > 0 /\ s[n] = Pad THEN (IF n > 1 /\ s[n - 1] = Pad THEN 2 ELSE 1) ELSE 0
  IN /\ n % 4 = 0
     /\ \A k \in 1..(n - p) : IsBase64Char(s[k])
     /\ (p = 1) => Sextet(s[n - 1]) % 4 = 0
     /\ (p = 2) => Sextet(s[n - 2]) % 16 = 0

\* t cannot be read as Base64: it has a character that is neither of the
\* alphabet nor padding nor whitespace, or its length without whitespace is
\* 1 modulo 4
NotBase64Text(t) ==
  \/ \E k \in 1..Len(t) : ~IsBase64Char(t[k]) /\ t[k] # Pad /\ t[k] \notin AsciiWhitespace
  \/ Len(SelectSeq(t, LAMBDA c : c \notin AsciiWhitespace)) % 4 = 1

\* C17: decode returns a string for every input; for the encoding of a text
\* of printable ASCII it returns the text, and for an input that is not valid
\* under the encoding it returns the input.
C17_DecodeTotalRoundTrip ==
  Len(decoded) >= 1 =>
    /\ decoded[1] \in Seq(0..255)
    /\ \A x \in PlainTexts : str = encode(x) => decoded[1] = x
    /\ ~ValidEncoding(str) => decoded[1] = str

ButtonsOf(lang) == {b \in 1..Len(langToggle) : langToggle[b] = lang}

\* C19: the stored preference is the language of the last toggle; once init()
\* has run, a stored preference is the document language and exactly the
\* buttons of that language are active, and without a stored preference the
\* document language and the buttons are those of the markup; init() writes
\* nothing to the storage.
C19_PreferencePersisted ==
  /\ [](lastToggle.lang # "none" => preferredLanguage = lastToggle.lang)
  /\ []((langPc = "ready" /\ preferredLanguage # "null") =>
          /\ documentLang = preferredLanguage
          /\ activeButtons = ButtonsOf(preferredLanguage)
          /\ \A l \in Languages \ {preferredLanguage} : ButtonsOf(l) \cap activeButtons = {})
  /\ []((langPc = "ready" /\ preferredLanguage = "null") =>
          /\ documentLang = declaredLang
          /\ activeButtons = markupActive)
  /\ [][(langPc = "uninit" /\ langPc' = "ready") => preferredLanguage' = preferredLanguage]_vars

C19_RestoredInSecondSession ==
  /\ session = 2
  /\ langPc = "ready"
  /\ lastToggle = [lang |-> "de", session |-> 1]
  /\ langToggle = <<"en", "de">>
  /\ declaredLang = "en"
  /\ markupActive = {1}
  /\ documentLang = "de"
  /\ activeButtons = {2}

\* ============================================================ claims: Header
\* C21: after every scroll event that handleScroll handles, the header carries
\* header--hidden exactly when the new scroll position is greater than the
\* position of the event handled before and greater than 100; and in every
\* state state.headerVisible is true exactly when the header does not carry
\* header--hidden.
C21_HeaderFollowsScroll ==
  /\ [](headerVisible <=> ~headerHidden)
  /\ [][ (headerPresent /\ headerPc = "ready" /\ ~inThrottle
            /\ \E y \in ScrollPositions : ScrollEvent(y)) =>
           (headerHidden' <=> (scrollY' > lastScrollY /\ scrollY' > 100)) ]_vars

C21_HiddenDeepInPage ==
  /\ headerPresent
  /\ headerHidden
  /\ ~headerVisible
  /\ headerScrolled
  /\ lastScrollY = 102
  /\ scrollY = 101
  /\ inThrottle

\* ========================================================= claims: MobileNav
ClosedNav == [open |-> FALSE, active |-> FALSE, expanded |-> "false", overflow |-> ""]

\* C23: in every state the nav is open exactly when the menu button is
\* active, exactly when aria-expanded is "true" and exactly when the body's
\* scrolling is locked; close() ends in the closed state from every state, so
\* that a second close() changes nothing, and every Escape press and nav-link
\* click leaves the menu closed.
C23_NavIndicatorsAgree ==
  /\ [](/\ navOpen <=> menuActive
        /\ navOpen <=> (ariaExpanded = "true")
        /\ navOpen <=> (bodyOverflow = "hidden")
        /\ ~navOpen => (ariaExpanded = "false" /\ bodyOverflow = ""))
  /\ [](/\ close(CurrentNav) = ClosedNav
        /\ close(close(CurrentNav)) = close(CurrentNav)
        /\ close(toggle(CurrentNav)) = ClosedNav)
  /\ [][(EscapeKey \/ NavLinkClick) => CurrentNav' = ClosedNav]_vars

C23_OpenedAfterClose ==
  /\ navEvents = <<"escape", "toggle">>
  /\ navOpen
  /\ menuActive
  /\ ariaExpanded = "true"
  /\ bodyOverflow = "hidden"

\* ======================================================== claims: PageLoader
\* C24: once PageLoader.init() has run on a page with a loader, the loader
\* is eventually hidden, whether the load event fires or not: until it is
\* hidden the fallback timer is pending; and a hidden loader stays hidden.
C24_LoaderEventuallyHidden ==
  /\ (loaderPc = "ready") ~> loaderHidden
  /\ []((loaderPc = "ready" /\ ~loaderHidden) => "fallback" \in loaderTimers)
  /\ [][loaderHidden => loaderHidden']_vars

C24_HiddenWithoutLoad ==
  /\ loaderPc = "ready"
  /\ ~loadFired
  /\ loaderTimers = {}
  /\ loaderHidden

====
